---- MODULE Spec2Model ----
(***************************************************************************)
(* Wa-Tor predator/prey simulation (wa-tor.py): a toroidal MultiGrid, Fish *)
(* and Shark agents, a RandomActivation scheduler and the driver loop.     *)
(*                                                                         *)
(* The program state is the record `model` (the WaTorModel instance with   *)
(* its grid, its scheduler and every Agent object created so far), the     *)
(* rows collected by the DataCollector, the driver's loop counter (i) and  *)
(* the control point (pc).  The remaining variables are history variables  *)
(* the program never reads:                                                *)
(*   pre     the model before the last step                                *)
(*   last    the agent whose step() the last step ran (0: none)            *)
(*   choice  the cell that agent stood in after its movement               *)
(*   acts    how often each agent's step() ran in the current tick         *)
(*   start   the roster at the start of the current tick                   *)
(*   gone    the agents removed so far (starved or eaten)                  *)
(*   parent  the agent whose reproduce() created each agent (0: seeded)    *)
(*   age     how often each agent's step() ran so far                      *)
(*   cohab   the <<parent, offspring>> pairs that shared a cell at the end *)
(*           of the tick before the last one, and at the end of the last   *)
(* Spec is the run of the driver on a constructed model.  NeighbourSpec    *)
(* applies grid.get_neighborhood to grids of every small size, and         *)
(* SeedSpec runs the seeding loops of the constructor step by step.        *)
(***************************************************************************)
EXTENDS Integers, Sequences, FiniteSets

VARIABLES model, datacollector, i, pc, pre, last, choice, acts, start, gone,
          parent, age, cohab, query, answer, xy, todo

\* The variables the run of the simulation does not touch: the arguments and
\* the result of a neighbourhood query made on its own (query, answer), and
\* the local variables of the constructor while it seeds the grid (xy, todo).
aside == <<query, answer, xy, todo>>

\* The variables of the run of the simulation.
run == <<model, datacollector, i, pc, pre, last, choice, acts, start, gone,
         parent, age, cohab>>

vars == <<run, aside>>

(***************************************************************************)
(* The constructor arguments of WaTorModel ("Initial parameters" of        *)
(* wa-tor.py), scaled down.  Each record is one configuration the program  *)
(* is run with.                                                            *)
(*   PredationCfg:  one Fish that breeds at every activation and one Shark *)
(*                  that starves unless it eats and breeds at every second *)
(*                  activation.                                            *)
(*   StarvationCfg: one Fish that starves at its first activation without  *)
(*                  breeding and one Shark that breeds at every activation.*)
(***************************************************************************)
PredationCfg ==
    [width |-> 3, height |-> 3, N_fish |-> 1, N_sharks |-> 1,
     fish_initial_energy |-> 2, shark_initial_energy |-> 1,
     fish_fertility_threshold |-> 1, shark_fertility_threshold |-> 2,
     shark_energy_from_fish |-> 1]

\* CrowdedCfg: two Fish that breed at every activation and one Shark fill a
\* torus of 3 x 1 cells, so that agents find no empty cell to move to.
CrowdedCfg ==
    [width |-> 3, height |-> 1, N_fish |-> 2, N_sharks |-> 1,
     fish_initial_energy |-> 3, shark_initial_energy |-> 2,
     fish_fertility_threshold |-> 1, shark_fertility_threshold |-> 3,
     shark_energy_from_fish |-> 1]

\* LastBreathCfg: one Fish that breeds and starves at its first activation,
\* and one Shark, on a torus of 2 x 2 cells.
LastBreathCfg ==
    [width |-> 2, height |-> 2, N_fish |-> 1, N_sharks |-> 1,
     fish_initial_energy |-> 1, shark_initial_energy |-> 2,
     fish_fertility_threshold |-> 1, shark_fertility_threshold |-> 2,
     shark_energy_from_fish |-> 1]

StarvationCfg ==
    [width |-> 3, height |-> 3, N_fish |-> 1, N_sharks |-> 1,
     fish_initial_energy |-> 1, shark_initial_energy |-> 2,
     fish_fertility_threshold |-> 2, shark_fertility_threshold |-> 1,
     shark_energy_from_fish |-> 2]

Configurations == {PredationCfg, StarvationCfg, CrowdedCfg, LastBreathCfg}

\* Constructor arguments for SeedSpec: a population that fits the grid and
\* one that exceeds it.
FittingCfg ==
    [width |-> 2, height |-> 2, N_fish |-> 2, N_sharks |-> 1,
     fish_initial_energy |-> 2, shark_initial_energy |-> 2,
     fish_fertility_threshold |-> 2, shark_fertility_threshold |-> 2,
     shark_energy_from_fish |-> 1]

OverfullCfg ==
    [width |-> 2, height |-> 1, N_fish |-> 2, N_sharks |-> 1,
     fish_initial_energy |-> 2, shark_initial_energy |-> 2,
     fish_fertility_threshold |-> 2, shark_fertility_threshold |-> 2,
     shark_energy_from_fish |-> 1]

SeedConfigurations == {FittingCfg, OverfullCfg}

\* The driver's loop runs model.step() MAX_ITERATIONS times.
MAX_ITERATIONS == 2

\* Bound of the model: no more than MaxId agents are ever created.
MaxId == 8

\* Bound of the model: neighbourhood queries are made on grids of up to
\* MaxSide columns and rows.
MaxSide == 4

EMPTY == 0
FISH == 1
SHARK == 2

\* agent.pos of an agent that is in no cell (Python None).
None == <<>>

Ids == 1..MaxId

\* The coordinates of the grid of m (grid.coord_iter()).
Cells(m) == (0..(m.width - 1)) \X (0..(m.height - 1))

(***************************************************************************)
(* Helpers on Python lists.                                                *)
(***************************************************************************)
Elems(s) == {s[k] : k \in 1..Len(s)}

\* list.remove(x): drops the first occurrence of x.
RECURSIVE ListRemove(_, _)
ListRemove(s, x) ==
    IF s = <<>> THEN <<>>
    ELSE IF Head(s) = x THEN Tail(s)
    ELSE <<Head(s)>> \o ListRemove(Tail(s), x)

\* All orders random.shuffle can leave a list of the keys in S in.
RECURSIVE Permutations(_)
Permutations(S) ==
    IF S = {} THEN {<<>>}
    ELSE UNION {{<<x>> \o p : p \in Permutations(S \ {x})} : x \in S}

(***************************************************************************)
(* MultiGrid(width, height, torus=True)                                    *)
(***************************************************************************)
Abs(n) == IF n < 0 THEN -n ELSE n

\* Mutant: the coordinates are not wrapped.
GetNeighborhood_nowrap(m, pos, moore) ==
    {<<pos[1] + dx, pos[2] + dy>> :
        <<dx, dy>> \in {d \in (-1..1) \X (-1..1) :
                          moore \/ Abs(d[1]) + Abs(d[2]) <= 1}} \ {pos}

\* grid.get_neighborhood(pos, moore, include_center=False), radius 1, torus:
\* the wrapped coordinates, each once, without pos itself.
GetNeighborhood(m, pos, moore) ==
    {<<(pos[1] + dx) % m.width, (pos[2] + dy) % m.height>> :
        <<dx, dy>> \in {d \in (-1..1) \X (-1..1) :
                          moore \/ Abs(d[1]) + Abs(d[2]) <= 1}} \ {pos}

IsCellEmpty(m, pos) == m.grid[pos] = <<>>

\* grid.get_cell_list_contents([pos])
GetCellListContents(m, pos) == m.grid[pos]

\* grid.place_agent(agent, pos): appends, never checks emptiness.
PlaceAgent(m, a, pos) ==
    [m EXCEPT !.grid[pos] = IF m.agents[a].pos = None \/ a \notin Elems(@)
                            THEN Append(@, a) ELSE @,
              !.agents[a].pos = pos]

\* grid.remove_agent(agent)
GridRemoveAgent(m, a) ==
    [m EXCEPT !.grid[m.agents[a].pos] = ListRemove(@, a),
              !.agents[a].pos = None]

\* grid.move_agent(agent, pos)
MoveAgent(m, a, pos) == PlaceAgent(GridRemoveAgent(m, a), a, pos)

(***************************************************************************)
(* RandomActivation                                                        *)
(***************************************************************************)
\* Mutant: the roster that is added to is the list the tick iterates over.
ScheduleAdd_live(m, a) ==
    [m EXCEPT !.schedule = @ \cup {a}, !.agent_keys = Append(@, a)]

ScheduleAdd(m, a) == [m EXCEPT !.schedule = @ \cup {a}]

ScheduleRemove(m, a) == [m EXCEPT !.schedule = @ \ {a}]

(***************************************************************************)
(* Agent construction: model.next_id() and Fish(...) / Shark(...).         *)
(***************************************************************************)
NewAgent(m, kind, energy) ==
    [m EXCEPT !.current_id = @ + 1,
              !.agents = [a \in 1..(m.current_id + 1) |->
                            IF a <= m.current_id THEN m.agents[a]
                            ELSE [kind |-> kind, energy |-> energy,
                                  fertility_counter |-> 0, pos |-> None]]]

(***************************************************************************)
(* Fish                                                                    *)
(***************************************************************************)
FishEmptySteps(m, a) ==
    {s \in GetNeighborhood(m, m.agents[a].pos, FALSE) : IsCellEmpty(m, s)}

\* The values self.random.choice can return in Fish.move (the agent's own
\* cell stands for "no choice is made").
FishChoices(m, a) ==
    IF FishEmptySteps(m, a) # {} THEN FishEmptySteps(m, a) ELSE {m.agents[a].pos}

FishMove(m, a, c) ==
    IF FishEmptySteps(m, a) # {} THEN MoveAgent(m, a, c) ELSE m

\* Mutant: `>` for `>=` in the threshold test.
FishReproduce_gt(m, a) ==
    LET m1 == [m EXCEPT !.agents[a].fertility_counter = @ + 1]
    IN  IF m1.agents[a].fertility_counter > m.fish_fertility_threshold
        THEN LET m2 == NewAgent(m1, "Fish", m.fish_initial_energy)
                 m3 == PlaceAgent(m2, m2.current_id, m2.agents[a].pos)
                 m4 == ScheduleAdd(m3, m2.current_id)
             IN  [m4 EXCEPT !.agents[a].fertility_counter = 0]
        ELSE m1

FishReproduce(m, a) ==
    LET m1 == [m EXCEPT !.agents[a].fertility_counter = @ + 1]
    IN  IF m1.agents[a].fertility_counter >= m.fish_fertility_threshold
        THEN LET m2 == NewAgent(m1, "Fish", m.fish_initial_energy)
                 m3 == PlaceAgent(m2, m2.current_id, m2.agents[a].pos)
                 m4 == ScheduleAdd(m3, m2.current_id)
             IN  [m4 EXCEPT !.agents[a].fertility_counter = 0]
        ELSE m1

\* Mutant: the starved Fish leaves the roster but stays in its cell.
FishDeathCheck_nogrid(m, a) ==
    IF m.agents[a].energy <= 0
    THEN ScheduleRemove(m, a)
    ELSE m

FishDeathCheck(m, a) ==
    IF m.agents[a].energy <= 0
    THEN ScheduleRemove(GridRemoveAgent(m, a), a)
    ELSE m

\* Mutant: the death check comes before reproduction, which a starved Fish
\* skips.
FishStep_deathfirst(m, a, c) ==
    LET m1 == FishMove(m, a, c)
        m2 == [m1 EXCEPT !.agents[a].energy = @ - 1]
    IN  IF m2.agents[a].energy <= 0 THEN FishDeathCheck(m2, a)
        ELSE FishReproduce(m2, a)

FishStep(m, a, c) ==
    LET m1 == FishMove(m, a, c)
        m2 == [m1 EXCEPT !.agents[a].energy = @ - 1]
        m3 == FishReproduce(m2, a)
    IN  FishDeathCheck(m3, a)

(***************************************************************************)
(* Shark                                                                   *)
(***************************************************************************)
SharkFishPositions(m, a) ==
    {s \in GetNeighborhood(m, m.agents[a].pos, TRUE) :
        /\ GetCellListContents(m, s) # <<>>
        /\ m.agents[GetCellListContents(m, s)[1]].kind = "Fish"}

SharkEmptySteps(m, a) ==
    {s \in GetNeighborhood(m, m.agents[a].pos, TRUE) : IsCellEmpty(m, s)}

SharkChoices(m, a) ==
    IF SharkFishPositions(m, a) # {} THEN SharkFishPositions(m, a)
    ELSE IF SharkEmptySteps(m, a) # {} THEN SharkEmptySteps(m, a)
    ELSE {m.agents[a].pos}

\* Mutant: the eaten Fish stays in the roster.
SharkEat_noroster(m, a, c) ==
    LET fish == GetCellListContents(m, c)[1]
        m1 == GridRemoveAgent(m, fish)
        m3 == MoveAgent(m1, a, c)
    IN  [m3 EXCEPT !.agents[a].energy = @ + m.shark_energy_from_fish]

\* Mutant: the Fish eaten is the last occupant of the chosen cell.
SharkEat_last(m, a, c) ==
    LET fish == GetCellListContents(m, c)[Len(GetCellListContents(m, c))]
        m1 == GridRemoveAgent(m, fish)
        m2 == ScheduleRemove(m1, fish)
        m3 == MoveAgent(m2, a, c)
    IN  [m3 EXCEPT !.agents[a].energy = @ + m.shark_energy_from_fish]

SharkEat(m, a, c) ==
    LET fish == GetCellListContents(m, c)[1]
        m1 == GridRemoveAgent(m, fish)
        m2 == ScheduleRemove(m1, fish)
        m3 == MoveAgent(m2, a, c)
    IN  [m3 EXCEPT !.agents[a].energy = @ + m.shark_energy_from_fish]

\* Mutant: the eaten Fish leaves the roster but stays in its cell.
SharkMoveAndEat_nogrid(m, a, c) ==
    IF SharkFishPositions(m, a) # {}
    THEN LET fish == GetCellListContents(m, c)[1]
             m2 == ScheduleRemove(m, fish)
             m3 == MoveAgent(m2, a, c)
         IN  [m3 EXCEPT !.agents[a].energy = @ + m.shark_energy_from_fish]
    ELSE IF SharkEmptySteps(m, a) # {} THEN MoveAgent(m, a, c)
    ELSE m

SharkMoveAndEat(m, a, c) ==
    IF SharkFishPositions(m, a) # {} THEN SharkEat(m, a, c)
    ELSE IF SharkEmptySteps(m, a) # {} THEN MoveAgent(m, a, c)
    ELSE m

\* Mutant: the counter is not reset after reproduction.
SharkReproduce_noreset(m, a) ==
    LET m1 == [m EXCEPT !.agents[a].fertility_counter = @ + 1]
    IN  IF m1.agents[a].fertility_counter >= m.shark_fertility_threshold
        THEN LET m2 == NewAgent(m1, "Shark", m.shark_initial_energy)
                 m3 == PlaceAgent(m2, m2.current_id, m2.agents[a].pos)
             IN  ScheduleAdd(m3, m2.current_id)
        ELSE m1

SharkReproduce(m, a) ==
    LET m1 == [m EXCEPT !.agents[a].fertility_counter = @ + 1]
    IN  IF m1.agents[a].fertility_counter >= m.shark_fertility_threshold
        THEN LET m2 == NewAgent(m1, "Shark", m.shark_initial_energy)
                 m3 == PlaceAgent(m2, m2.current_id, m2.agents[a].pos)
                 m4 == ScheduleAdd(m3, m2.current_id)
             IN  [m4 EXCEPT !.agents[a].fertility_counter = 0]
        ELSE m1

\* Mutant: `<` for `<=` in the death check.
SharkDeathCheck_lt(m, a) ==
    IF m.agents[a].energy < 0
    THEN ScheduleRemove(GridRemoveAgent(m, a), a)
    ELSE m

SharkDeathCheck(m, a) ==
    IF m.agents[a].energy <= 0
    THEN ScheduleRemove(GridRemoveAgent(m, a), a)
    ELSE m

\* Mutant: the energy decrement comes twice.
SharkStep_twice(m, a, c) ==
    LET m1 == SharkMoveAndEat(m, a, c)
        m2 == SharkReproduce(m1, a)
        m3 == [m2 EXCEPT !.agents[a].energy = @ - 2]
    IN  SharkDeathCheck(m3, a)

SharkStep(m, a, c) ==
    LET m1 == SharkMoveAndEat(m, a, c)
        m2 == SharkReproduce(m1, a)
        m3 == [m2 EXCEPT !.agents[a].energy = @ - 1]
    IN  SharkDeathCheck(m3, a)

(***************************************************************************)
(* WaTorModel                                                              *)
(***************************************************************************)
\* Mutant: a cell is classified by its last occupant.
GetGrid_last(m) ==
    [p \in Cells(m) |->
        IF m.grid[p] # <<>>
        THEN IF m.agents[m.grid[p][Len(m.grid[p])]].kind = "Shark" THEN SHARK
             ELSE IF m.agents[m.grid[p][Len(m.grid[p])]].kind = "Fish" THEN FISH
             ELSE EMPTY
        ELSE EMPTY]

\* get_grid(): the classification of every cell by its first occupant.
GetGrid(m) ==
    [p \in Cells(m) |->
        IF m.grid[p] # <<>>
        THEN IF m.agents[m.grid[p][1]].kind = "Shark" THEN SHARK
             ELSE IF m.agents[m.grid[p][1]].kind = "Fish" THEN FISH
             ELSE EMPTY
        ELSE EMPTY]

\* The model before the seeding loops of __init__(cfg).
EmptyModel(cfg) ==
    [width |-> cfg.width,
     height |-> cfg.height,
     num_agents |-> cfg.N_fish + cfg.N_sharks,
     fish_initial_energy |-> cfg.fish_initial_energy,
     shark_initial_energy |-> cfg.shark_initial_energy,
     fish_fertility_threshold |-> cfg.fish_fertility_threshold,
     shark_fertility_threshold |-> cfg.shark_fertility_threshold,
     shark_energy_from_fish |-> cfg.shark_energy_from_fish,
     grid |-> [p \in (0..(cfg.width - 1)) \X (0..(cfg.height - 1)) |-> <<>>],
     agents |-> <<>>,
     schedule |-> {},
     agent_keys |-> <<>>,
     steps |-> 0,
     current_id |-> 0]

\* One pass of a seeding loop: find_empty_cell() returned pos.
Seed(m, kind, energy, pos) ==
    LET m1 == NewAgent(m, kind, energy)
        m2 == PlaceAgent(m1, m1.current_id, pos)
    IN  ScheduleAdd(m2, m1.current_id)

\* The cells find_empty_cell() can return.
FindEmptyCell(m) == {p \in Cells(m) : IsCellEmpty(m, p)}

RECURSIVE SeedAll(_, _, _, _)
\* All models n more passes of a seeding loop can leave.
SeedAll(ms, kind, energy, n) ==
    IF n = 0 THEN ms
    ELSE SeedAll(UNION {{Seed(m, kind, energy, p) : p \in FindEmptyCell(m)} :
                           m \in ms},
                 kind, energy, n - 1)

\* WaTorModel.__init__(cfg): the models it can construct.
Constructed(cfg) ==
    SeedAll(SeedAll({EmptyModel(cfg)}, "Fish", cfg.fish_initial_energy, cfg.N_fish),
            "Shark", cfg.shark_initial_energy, cfg.N_sharks)

\* Mutant: the row collected replaces the rows collected before.
Collect_latest(rows, m) == <<GetGrid(m)>>

\* datacollector.collect(self): one more "Grid" row.
Collect(rows, m) == Append(rows, GetGrid(m))

\* Mutant: the shuffled copy misses one key of the roster.
AgentBuffer_short(m) ==
    IF m.schedule = {} THEN {<<>>}
    ELSE {Tail(keys) : keys \in Permutations(m.schedule)}

\* agent_buffer(shuffled=True): the orders the shuffled copy of the roster's
\* keys can have.
AgentBuffer(m) == Permutations(m.schedule)

\* Mutant: the keys of the copy are not looked up in the roster again.
InRoster_always(m, key) == key \in 1..m.current_id

\* agent_buffer: `if agent_key in self._agents`.
InRoster(m, key) == key \in m.schedule

\* The values the agent's self.random.choice can return in its step().
Choices(m, a) ==
    IF m.agents[a].pos = None THEN {None}
    ELSE IF m.agents[a].kind = "Fish" THEN FishChoices(m, a)
    ELSE SharkChoices(m, a)

\* agent.step().  An agent that is in no cell cannot run it: its first call,
\* get_neighborhood(self.pos, ...), raises on pos = None before any change.
AgentStep(m, a, c) ==
    IF m.agents[a].pos = None THEN m
    ELSE IF m.agents[a].kind = "Fish" THEN FishStep(m, a, c)
    ELSE SharkStep(m, a, c)

\* The agents an activation took out of the grid or out of the roster.
Removals(m, n) ==
    {a \in 1..m.current_id :
        \/ a \in m.schedule /\ a \notin n.schedule
        \/ m.agents[a].pos # None /\ n.agents[a].pos = None}

\* The <<parent, offspring>> pairs of m that stand in one cell (par maps an
\* agent to the agent that created it).
Cohabiting(m, par) ==
    {pr \in (1..m.current_id) \X (1..m.current_id) :
        /\ par[pr[2]] = pr[1]
        /\ m.agents[pr[1]].pos # None
        /\ m.agents[pr[1]].pos = m.agents[pr[2]].pos}

(***************************************************************************)
(* Initial states and steps.                                               *)
(***************************************************************************)
Init ==
    /\ \E cfg \in Configurations : model \in Constructed(cfg)
    /\ datacollector = <<>>
    /\ i = 0
    /\ pc = "loop"
    /\ pre = model
    /\ last = 0
    /\ choice = None
    /\ acts = [a \in Ids |-> 0]
    /\ start = {}
    /\ gone = {}
    /\ parent = [a \in Ids |-> 0]
    /\ age = [a \in Ids |-> 0]
    /\ cohab = <<{}, {}>>
    /\ query = None
    /\ answer = {}
    /\ xy = None
    /\ todo = <<0, 0>>

\* model.step() up to the first activation: the snapshot is collected, then
\* schedule.step() copies and shuffles the roster's keys.
TickStart ==
    /\ pc = "loop"
    /\ i < MAX_ITERATIONS
    /\ datacollector' = Collect(datacollector, model)
    /\ \E keys \in AgentBuffer(model) :
          model' = [model EXCEPT !.agent_keys = keys]
    /\ pc' = "tick"
    /\ pre' = model
    /\ last' = 0
    /\ choice' = None
    /\ acts' = [a \in Ids |-> 0]
    /\ start' = model.schedule
    /\ UNCHANGED <<i, gone, parent, age, cohab>>
    /\ UNCHANGED aside

\* One pass of the loop of schedule.step() over a key that is still in the
\* roster: that agent's step().
Activate ==
    /\ pc = "tick"
    /\ model.agent_keys # <<>>
    /\ LET key == Head(model.agent_keys)
           m0 == [model EXCEPT !.agent_keys = Tail(@)]
       IN  /\ InRoster(model, key)
           /\ \E c \in Choices(m0, key) :
                 /\ AgentStep(m0, key, c).current_id <= MaxId
                 /\ model' = AgentStep(m0, key, c)
                 /\ choice' = c
           /\ pc' = IF model.agents[key].pos = None THEN "error" ELSE "tick"
           /\ pre' = model
           /\ last' = key
           /\ acts' = [acts EXCEPT ![key] = @ + 1]
           /\ gone' = gone \cup Removals(model, model')
           /\ parent' = [a \in Ids |->
                           IF a > model.current_id /\ a <= model'.current_id
                           THEN key ELSE parent[a]]
           /\ age' = [age EXCEPT ![key] = @ + 1]
    /\ UNCHANGED <<datacollector, i, start, cohab>>
    /\ UNCHANGED aside

\* One pass of the loop over a key that left the roster earlier in the tick.
Skip ==
    /\ pc = "tick"
    /\ model.agent_keys # <<>>
    /\ ~InRoster(model, Head(model.agent_keys))
    /\ model' = [model EXCEPT !.agent_keys = Tail(@)]
    /\ pre' = model
    /\ last' = 0
    /\ choice' = None
    /\ UNCHANGED <<datacollector, i, pc, acts, start, gone, parent, age, cohab>>
    /\ UNCHANGED aside

\* The loop of schedule.step() is over: steps += 1, and the driver's loop
\* goes to its next iteration.
TickEnd ==
    /\ pc = "tick"
    /\ model.agent_keys = <<>>
    /\ model' = [model EXCEPT !.steps = @ + 1]
    /\ i' = i + 1
    /\ pc' = "loop"
    /\ pre' = model
    /\ last' = 0
    /\ choice' = None
    /\ cohab' = <<cohab[2], Cohabiting(model, parent)>>
    /\ UNCHANGED <<datacollector, acts, start, gone, parent, age>>
    /\ UNCHANGED aside

\* The driver's loop is over.
Finish ==
    /\ pc = "loop"
    /\ i = MAX_ITERATIONS
    /\ pc' = "done"
    /\ pre' = model
    /\ last' = 0
    /\ choice' = None
    /\ UNCHANGED <<model, datacollector, i, acts, start, gone, parent, age,
                   cohab>>
    /\ UNCHANGED aside

Next == TickStart \/ Activate \/ Skip \/ TickEnd \/ Finish

Spec == Init /\ [][Next]_vars

(***************************************************************************)
(* grid.get_neighborhood on its own: any position of any grid of up to     *)
(* MaxSide x MaxSide cells, as Fish.move (moore = FALSE) and               *)
(* Shark.move_and_eat (moore = TRUE) query it.                             *)
(***************************************************************************)
NeighbourInit ==
    /\ model = EmptyModel(PredationCfg)
    /\ datacollector = <<>>
    /\ i = 0
    /\ pc = "query"
    /\ pre = model
    /\ last = 0
    /\ choice = None
    /\ acts = [a \in Ids |-> 0]
    /\ start = {}
    /\ gone = {}
    /\ parent = [a \in Ids |-> 0]
    /\ age = [a \in Ids |-> 0]
    /\ cohab = <<{}, {}>>
    /\ query = None
    /\ answer = {}
    /\ xy = None
    /\ todo = <<0, 0>>

Query ==
    /\ pc = "query"
    /\ \E w \in 1..MaxSide, h \in 1..MaxSide, moore \in BOOLEAN :
          \E pos \in (0..(w - 1)) \X (0..(h - 1)) :
              /\ query' = [width |-> w, height |-> h, pos |-> pos, moore |-> moore]
              /\ answer' = GetNeighborhood([width |-> w, height |-> h], pos, moore)
    /\ UNCHANGED <<run, xy, todo>>

NeighbourNext == Query

NeighbourSpec == NeighbourInit /\ [][NeighbourNext]_vars

(***************************************************************************)
(* WaTorModel.__init__ step by step: the two seeding loops and the loop of *)
(* find_empty_cell.  todo = <<Fish still to place, Sharks still to place>>,*)
(* xy = the cell find_empty_cell has drawn last (None outside it).         *)
(***************************************************************************)
SeedInit ==
    /\ \E cfg \in SeedConfigurations :
          /\ model = EmptyModel(cfg)
          /\ todo = <<cfg.N_fish, cfg.N_sharks>>
    /\ xy = None
    /\ pc = "seed"
    /\ datacollector = <<>>
    /\ i = 0
    /\ pre = None
    /\ last = 0
    /\ choice = None
    /\ acts = [a \in Ids |-> 0]
    /\ start = {}
    /\ gone = {}
    /\ parent = [a \in Ids |-> 0]
    /\ age = [a \in Ids |-> 0]
    /\ cohab = <<{}, {}>>
    /\ query = None
    /\ answer = {}

\* find_empty_cell is entered for the next agent and draws x and y.
Draw ==
    /\ pc = "seed"
    /\ todo # <<0, 0>>
    /\ xy = None
    /\ xy' \in Cells(model)
    /\ UNCHANGED <<run, query, answer, todo>>

\* The cell drawn is not empty: the while loop draws again.
Redraw ==
    /\ pc = "seed"
    /\ xy # None
    /\ ~IsCellEmpty(model, xy)
    /\ xy' \in Cells(model)
    /\ UNCHANGED <<run, query, answer, todo>>

\* The cell drawn is empty: find_empty_cell returns it, and the seeding loop
\* creates the agent, places it and adds it to the roster.
Place ==
    /\ pc = "seed"
    /\ xy # None
    /\ IsCellEmpty(model, xy)
    /\ model' = IF todo[1] > 0
                THEN Seed(model, "Fish", model.fish_initial_energy, xy)
                ELSE Seed(model, "Shark", model.shark_initial_energy, xy)
    /\ todo' = IF todo[1] > 0 THEN <<todo[1] - 1, todo[2]>>
               ELSE <<0, todo[2] - 1>>
    /\ xy' = None
    /\ UNCHANGED <<datacollector, i, pc, pre, last, choice, acts, start, gone,
                   parent, age, cohab, query, answer>>

\* Both seeding loops are over: the constructor returns.
Return ==
    /\ pc = "seed"
    /\ todo = <<0, 0>>
    /\ xy = None
    /\ pc' = "constructed"
    /\ UNCHANGED <<model, datacollector, i, pre, last, choice, acts, start,
                   gone, parent, age, cohab, aside>>

SeedNext == Draw \/ Redraw \/ Place \/ Return

SeedSpec == SeedInit /\ [][SeedNext]_vars

(***************************************************************************)
(* Properties.  Every step of Spec is one whole activation (or one step of *)
(* the driver between activations), so every state is an activation        *)
(* boundary; `pre` is the model at the boundary before it.                 *)
(***************************************************************************)
Activated == last # 0

\* The agents that stand in some cell of m.
InGrid(m) == UNION {Elems(m.grid[p]) : p \in Cells(m)}

\* The Fish the last activation took out of the grid: the one the Shark ate.
Eaten ==
    {f \in 1..pre.current_id :
        /\ f # last
        /\ pre.agents[f].pos # None
        /\ model.agents[f].pos = None}

\* C1: in every tick every agent of the roster at the start of the tick has
\* run step() at most once, and an agent added during the tick has not run
\* it and is not in the tick's activation list; it is in the roster, so the
\* next tick's list holds it (unless it was eaten meanwhile).
ActivationOnce ==
    /\ \A a \in Ids : acts[a] <= 1
    /\ \A a \in Ids : acts[a] > 0 => a \in start
    /\ pc = "tick" =>
          \A a \in 1..model.current_id :
              a \notin start =>
                  /\ a \notin Elems(model.agent_keys)
                  /\ a \in model.schedule \/ a \in gone

\* An agent was born in this tick after some agent has run.
NewbornInTick ==
    /\ pc = "tick"
    /\ \E a \in 1..model.current_id : a \notin start /\ a \in model.schedule
    /\ \E b \in Ids : acts[b] = 1
    /\ model.agent_keys # <<>>

\* C2: a step never runs step() of an agent that was removed before it, in
\* the same tick or an earlier one, and a removed agent stays removed.
NeverRunsAfterRemoval ==
    [][/\ last' # 0 => last' \notin gone
       /\ gone \subseteq gone'
       /\ \A a \in gone : a \notin model'.schedule]_vars

\* An agent has run after another one was removed, and a removed agent's key
\* was met in the activation list.
RanAfterRemoval ==
    /\ Activated
    /\ gone \ {last} # {}
    /\ \E a \in gone : a \in start

\* C3: an activation changes the energy of the activated agent by -1, or by
\* shark_energy_from_fish - 1 when it ate a Fish, and no other agent's
\* energy; a step that is no activation changes no energy.
EnergyPerActivation ==
    \A a \in 1..pre.current_id :
        model.agents[a].energy =
            IF Activated /\ a = last
            THEN IF Eaten # {}
                 THEN pre.agents[a].energy + pre.shark_energy_from_fish - 1
                 ELSE pre.agents[a].energy - 1
            ELSE pre.agents[a].energy

\* A Shark has just eaten.
SharkAte ==
    /\ Activated
    /\ pre.agents[last].kind = "Shark"
    /\ Eaten # {}

\* The agent a is in no cell and not in the roster.
Removed(a) ==
    /\ a \notin model.schedule
    /\ a \notin InGrid(model)
    /\ model.agents[a].pos = None

\* C4 as stated: any agent that starts an activation with energy 1 is out
\* of the roster and of the grid at its end.
StarvesAtEnergyOne ==
    Activated /\ pre.agents[last].energy = 1 => Removed(last)

\* C4, amended: a Fish that starts an activation with energy 1, and a Shark
\* that starts one with energy 1 and eats no Fish in it, is out of the roster
\* and of the grid at its end; a Shark that eats is not, it ends with energy
\* shark_energy_from_fish.
StarvesAtEnergyOneUnlessFed ==
    Activated /\ pre.agents[last].energy = 1 =>
        IF Eaten = {}
        THEN Removed(last)
        ELSE /\ model.agents[last].energy = pre.shark_energy_from_fish
             /\ last \in model.schedule
             /\ model.agents[last].pos # None

\* A Shark with energy 1 found no Fish, moved, bred and starved.
SharkStarved ==
    /\ Activated
    /\ pre.agents[last].kind = "Shark"
    /\ pre.agents[last].energy = 1
    /\ Eaten = {}
    /\ model.current_id > pre.current_id
    /\ choice # pre.agents[last].pos
    /\ Removed(last)

\* The Fish that are first occupant of a cell next to the agent a of m.
FishNextTo(m, a) ==
    {m.grid[s][1] : s \in {t \in GetNeighborhood(m, m.agents[a].pos, TRUE) :
                               /\ m.grid[t] # <<>>
                               /\ m.agents[m.grid[t][1]].kind = "Fish"}}

\* C5: the activation of a Shark that has a Fish as first occupant of one of
\* its 8 neighbour cells removes exactly one such Fish from the grid and the
\* roster, leaves the Shark in that Fish's cell and its energy at the energy
\* before, minus 1, plus shark_energy_from_fish.
SharkEatsNeighbour ==
    Activated /\ pre.agents[last].kind = "Shark" /\ FishNextTo(pre, last) # {} =>
        \E f \in FishNextTo(pre, last) :
            /\ Eaten = {f}
            /\ pre.schedule \ model.schedule = {f}
            /\ InGrid(pre) \ InGrid(model) = {f}
            /\ model.agents[last].pos = pre.agents[f].pos
            /\ last \in Elems(model.grid[pre.agents[f].pos])
            /\ model.agents[last].energy =
                   pre.agents[last].energy - 1 + pre.shark_energy_from_fish

\* A Shark was activated next to a Fish that shared its cell with another.
SharkNextToFish ==
    /\ Activated
    /\ pre.agents[last].kind = "Shark"
    /\ \E f \in FishNextTo(pre, last) : Len(pre.grid[pre.agents[f].pos]) = 2

Threshold(m, a) ==
    IF m.agents[a].kind = "Fish" THEN m.fish_fertility_threshold
    ELSE m.shark_fertility_threshold

InitialEnergy(m, a) ==
    IF m.agents[a].kind = "Fish" THEN m.fish_initial_energy
    ELSE m.shark_initial_energy

\* C6: an activation that brings the fertility counter to the threshold
\* creates exactly one agent: of the parent's kind, with the next id, the
\* kind's initial energy and counter 0, appended to the cell the parent stood
\* in after its movement whatever that cell holds, in the roster but not in
\* the tick's activation list; the parent's counter is 0.  Any other
\* activation, and any other step, creates no agent.
ReproductionAtThreshold ==
    IF Activated /\ pre.agents[last].fertility_counter + 1 = Threshold(pre, last)
    THEN LET n == pre.current_id + 1
         IN  /\ model.current_id = n
             /\ DOMAIN model.agents = 1..n
             /\ model.agents[n] =
                    [kind |-> pre.agents[last].kind,
                     energy |-> InitialEnergy(pre, last),
                     fertility_counter |-> 0,
                     pos |-> choice]
             /\ model.grid[choice][Len(model.grid[choice])] = n
             /\ \A p \in Cells(model) \ {choice} : n \notin Elems(model.grid[p])
             /\ model.agents[last].pos \in {choice, None}
             /\ n \in model.schedule
             /\ n \notin Elems(model.agent_keys)
             /\ model.agents[last].fertility_counter = 0
    ELSE /\ model.current_id = pre.current_id
         /\ DOMAIN model.agents = DOMAIN pre.agents
         /\ Activated =>
               model.agents[last].fertility_counter =
                   pre.agents[last].fertility_counter + 1

\* An agent bred into a cell that held another agent besides its parent.
BredIntoOccupiedCell ==
    /\ Activated
    /\ model.current_id = pre.current_id + 1
    /\ Len(model.grid[choice]) = 3
    /\ last \in model.schedule

\* C7 as stated: no cell ever holds more than two agents, and a cell that
\* holds two holds a parent and its offspring.
CellHoldsAtMostParentAndOffspring ==
    \A p \in Cells(model) :
        /\ Len(model.grid[p]) <= 2
        /\ Len(model.grid[p]) = 2 =>
              parent[model.grid[p][2]] = model.grid[p][1]

\* C8: at every activation boundary the agents of the roster are the agents
\* in the grid, each stands once in exactly one cell, which is its pos, and
\* no removed agent is in a cell or in the roster.
RosterMatchesGrid ==
    /\ InGrid(model) = model.schedule
    /\ \A a \in model.schedule :
          /\ model.agents[a].pos \in Cells(model)
          /\ \A p \in Cells(model) :
                Cardinality({k \in 1..Len(model.grid[p]) : model.grid[p][k] = a})
                    = IF p = model.agents[a].pos THEN 1 ELSE 0
    /\ \A a \in gone : a \notin InGrid(model) /\ a \notin model.schedule
    /\ \A a \in (1..model.current_id) \ model.schedule :
          a \in gone /\ model.agents[a].pos = None

\* An agent starved while others live on.
StarvedAmongOthers ==
    /\ Activated
    /\ last \in gone
    /\ Eaten = {}
    /\ model.schedule # {}

\* The last step was the start of a tick: the row just collected is the
\* classification of pre.
Collected == pc = "tick" /\ pre.agent_keys = <<>>

\* C9: no cell of a row get_grid produces is classified from an agent that
\* was removed before (starved or eaten): every cell the row does not show
\* EMPTY has a first occupant, and that is an agent never removed.
NoSnapshotOfRemoved ==
    Collected =>
        LET row == datacollector[Len(datacollector)]
        IN  \A p \in Cells(pre) :
                /\ row[p] # EMPTY => pre.grid[p] # <<>>
                /\ pre.grid[p] # <<>> => pre.grid[p][1] \notin gone

\* A row was collected after a Fish was eaten whose offspring, left behind
\* in its cell, is now the first occupant there.
CollectedAfterRemovals ==
    /\ Collected
    /\ \E p \in Cells(pre) :
          /\ pre.grid[p] # <<>>
          /\ parent[pre.grid[p][1]] \in gone
          /\ datacollector[Len(datacollector)][p] = FISH

\* C12: every call of model.step() appends exactly one row, before any agent
\* of the tick runs, and no other step touches the rows: the row appended
\* when k-1 scheduler ticks have run is the k-th row and classifies the world
\* as those k-1 ticks left it; after N ticks there are N rows, and none was
\* taken of the world after the N-th tick.
SnapshotBeforeTick ==
    [][/\ IF pc = "loop" /\ pc' = "tick"
          THEN /\ datacollector' = Append(datacollector, GetGrid(model))
               /\ Len(datacollector) = model.steps
               /\ acts' = [a \in Ids |-> 0]
          ELSE datacollector' = datacollector
       /\ model'.steps = i'
       /\ Len(datacollector') = IF pc' = "tick" THEN i' + 1 ELSE i'
       /\ pc' = "done" => Len(datacollector') = MAX_ITERATIONS]_vars

\* The driver has run all its ticks; the rows differ, and the world the last
\* tick left has another classification than the last row.
RunRecorded ==
    /\ pc = "done"
    /\ model.steps = MAX_ITERATIONS
    /\ Len(datacollector) = MAX_ITERATIONS
    /\ datacollector[1] # datacollector[MAX_ITERATIONS]
    /\ GetGrid(model) # datacollector[MAX_ITERATIONS]

\* The kind of the first occupant of cell p of m.
FirstKind(m, p) == m.agents[m.grid[p][1]].kind

\* C13: get_grid shows a cell EMPTY iff its occupant list is empty, FISH iff
\* the first occupant is a Fish and SHARK iff it is a Shark, whoever stands
\* behind the first: in every world, and in every row collected.
ClassifiedByFirstOccupant ==
    /\ \A p \in Cells(model) :
          /\ GetGrid(model)[p] = EMPTY <=> model.grid[p] = <<>>
          /\ GetGrid(model)[p] = FISH <=>
                model.grid[p] # <<>> /\ FirstKind(model, p) = "Fish"
          /\ GetGrid(model)[p] = SHARK <=>
                model.grid[p] # <<>> /\ FirstKind(model, p) = "Shark"
    /\ Collected =>
          \A p \in Cells(pre) :
              datacollector[Len(datacollector)][p] =
                  IF pre.grid[p] = <<>> THEN EMPTY
                  ELSE IF FirstKind(pre, p) = "Fish" THEN FISH ELSE SHARK

\* A row was collected of a world where a Shark stands behind a Fish.
CollectedSharkBehindFish ==
    /\ Collected
    /\ \E p \in Cells(pre) :
          /\ Len(pre.grid[p]) >= 2
          /\ FirstKind(pre, p) = "Fish"
          /\ pre.agents[pre.grid[p][2]].kind = "Shark"
          /\ datacollector[Len(datacollector)][p] = FISH

\* C15 as stated: every move of an agent enters a cell that holds no agent
\* at the moment of the move (the Fish a Shark has just eaten does not count).
MovesIntoEmptyCell ==
    Activated /\ choice # pre.agents[last].pos =>
        Elems(pre.grid[choice]) \ Eaten = {}

\* C16 as stated: a parent and its offspring that share a cell at the end of
\* a tick do not share a cell at the end of the next tick.
CoOccupancyTransient == cohab[1] \cap cohab[2] = {}

\* C17: a Shark's activation eats exactly when one of its 8 neighbour cells
\* has a Fish as first occupant, so the move to an empty neighbour cell is
\* taken only when none has; the Fish eaten is the first occupant of the
\* chosen cell, and no agent that stood behind the first occupant of its cell
\* is taken out of the grid.
SharkEatsFirstOccupantOnly ==
    Activated /\ pre.agents[last].kind = "Shark" /\ pre.agents[last].pos # None =>
        /\ Eaten = {} <=> FishNextTo(pre, last) = {}
        /\ Eaten = {} /\ choice # pre.agents[last].pos =>
              /\ choice \in GetNeighborhood(pre, pre.agents[last].pos, TRUE)
              /\ pre.grid[choice] = <<>>
        /\ Eaten # {} =>
              /\ choice \in GetNeighborhood(pre, pre.agents[last].pos, TRUE)
              /\ Eaten = {pre.grid[choice][1]}
              /\ pre.agents[pre.grid[choice][1]].kind = "Fish"
        /\ \A p \in Cells(pre) : \A k \in 2..Len(pre.grid[p]) :
              pre.grid[p][k] # last =>
                  /\ pre.grid[p][k] \notin Eaten
                  /\ pre.grid[p][k] \in InGrid(model)
                  /\ pre.grid[p][k] \in model.schedule

\* A Shark ate the first of two Fish of one cell and left the second.
AteFirstOfTwoFish ==
    /\ SharkAte
    /\ Len(pre.grid[choice]) >= 2
    /\ pre.agents[pre.grid[choice][2]].kind = "Fish"
    /\ pre.grid[choice][2] \in Elems(model.grid[choice])

\* C18: a Fish's activation moves it (when a 4-neighbour cell is empty),
\* then takes 1 from its energy, then reproduces into the cell it moved to
\* when its counter reaches the threshold, then removes it when its energy is
\* 0 or less; no step is skipped, so a Fish that reaches energy 0 and the
\* threshold in one activation leaves its offspring in the grid and the
\* roster and is itself removed.
FishStepsInOrder ==
    Activated /\ pre.agents[last].kind = "Fish" /\ pre.agents[last].pos # None =>
        LET energy == pre.agents[last].energy - 1
            bred == pre.agents[last].fertility_counter + 1
                        >= pre.fish_fertility_threshold
            offspring == pre.current_id + 1
        IN  /\ choice \in FishChoices(pre, last)
            /\ model.agents[last].energy = energy
            /\ IF bred
               THEN /\ model.current_id = offspring
                    /\ model.agents[offspring].kind = "Fish"
                    /\ model.agents[offspring].pos = choice
                    /\ offspring \in Elems(model.grid[choice])
                    /\ offspring \in model.schedule
               ELSE model.current_id = pre.current_id
            /\ IF energy <= 0
               THEN Removed(last)
               ELSE /\ model.agents[last].pos = choice
                    /\ last \in Elems(model.grid[choice])
                    /\ last \in model.schedule

\* A Fish moved, reached energy 0 and the threshold in the same activation,
\* and left its offspring where it had moved to.
BredAtLastBreath ==
    /\ Activated
    /\ pre.agents[last].kind = "Fish"
    /\ pre.agents[last].energy = 1
    /\ pre.agents[last].fertility_counter + 1 = pre.fish_fertility_threshold
    /\ choice # pre.agents[last].pos
    /\ Removed(last)
    /\ model.current_id = pre.current_id + 1
    /\ model.current_id \in Elems(model.grid[choice])
    /\ model.current_id \in model.schedule

\* The agents that a created.
Offspring(a) == {k \in 1..model.current_id : parent[k] = a}

\* C19: between activations the fertility counter c of every agent of the
\* roster satisfies 0 <= c < threshold of its kind, so the test
\* `counter >= threshold` fires exactly when the counter equals the threshold;
\* c is the number of its activations modulo the threshold and it has
\* reproduced once for every threshold activations.
CounterBelowThreshold ==
    /\ \A a \in model.schedule :
          /\ 0 <= model.agents[a].fertility_counter
          /\ model.agents[a].fertility_counter < Threshold(model, a)
          /\ model.agents[a].fertility_counter = age[a] % Threshold(model, a)
          /\ Cardinality(Offspring(a)) = age[a] \div Threshold(model, a)
    /\ Activated /\ pre.agents[last].pos # None =>
          /\ pre.agents[last].fertility_counter + 1 <= Threshold(pre, last)
          /\ model.current_id > pre.current_id <=>
                pre.agents[last].fertility_counter + 1 = Threshold(pre, last)

\* An agent with threshold 2 reproduced on its second activation, not on its
\* first, and lives on with counter 0.
ReproducedOnSecondActivation ==
    /\ Activated
    /\ last \in model.schedule
    /\ Threshold(model, last) = 2
    /\ age[last] = 2
    /\ model.agents[last].fertility_counter = 0
    /\ Offspring(last) = {model.current_id}
    /\ model.current_id = pre.current_id + 1

\* The loop of schedule.step() has been run to its end at least once.
TickOver ==
    \/ pc = "tick" /\ model.agent_keys = <<>>
    \/ pc \in {"loop", "done"} /\ i > 0

\* C20: within a tick an agent of the roster at its start that has not run
\* and is still in the roster has its turn ahead of it in the shuffled
\* order; once the tick is over every agent of the roster at its start has
\* either run exactly once or was removed before its turn, so every agent in
\* the roster at the start and at the end of the tick ran exactly once.
NoAgentMissesItsTurn ==
    /\ pc = "tick" =>
          \A a \in start :
              acts[a] = 0 /\ a \in model.schedule =>
                  a \in Elems(model.agent_keys)
    /\ TickOver =>
          /\ \A a \in start : acts[a] = 1 \/ (acts[a] = 0 /\ a \in gone)
          /\ \A a \in start \cap model.schedule : acts[a] = 1

\* A tick of three agents is over: one was removed before its turn, and the
\* two that are still in the roster have both run.
SurvivorsServed ==
    /\ pc = "tick"
    /\ model.agent_keys = <<>>
    /\ Cardinality(start) = 3
    /\ Cardinality(start \cap model.schedule) = 2
    /\ \E a \in start : acts[a] = 0 /\ a \in gone

(***************************************************************************)
(* Properties of SeedSpec.                                                 *)
(***************************************************************************)
\* The population asked for exceeds the number of cells.
Overfull == model.num_agents > model.width * model.height

\* C14: when N_fish + N_sharks exceeds W * H the constructor places no agent
\* (it fails with a ConfigurationError up front).
FailsFastWhenOverfull == Overfull => model.current_id = 0

(***************************************************************************)
(* Properties of NeighbourSpec.                                            *)
(***************************************************************************)
Asked == query # None

InRange(c, w, h) == c[1] \in 0..(w - 1) /\ c[2] \in 0..(h - 1)

\* C11 as stated: on every grid and at every position the movement query
\* returns exactly 4 coordinates and the search query exactly 8, all in
\* [0,W) x [0,H).
NeighbourhoodFull ==
    Asked =>
        /\ Cardinality(answer) = IF query.moore THEN 8 ELSE 4
        /\ \A c \in answer : InRange(c, query.width, query.height)

\* C11, amended: every coordinate returned lies in [0,W) x [0,H) and is not
\* the position itself; on a grid of at least 3 columns and 3 rows exactly 4
\* (movement) or 8 (search) are returned, also at the boundary; on a grid
\* with a side shorter than 3, fewer are, because coordinates that wrap onto
\* each other are returned once and the position itself is left out.
NeighbourhoodWrapped ==
    Asked =>
        /\ \A c \in answer : InRange(c, query.width, query.height)
        /\ query.pos \notin answer
        /\ IF query.width >= 3 /\ query.height >= 3
           THEN Cardinality(answer) = IF query.moore THEN 8 ELSE 4
           ELSE Cardinality(answer) < IF query.moore THEN 8 ELSE 4

\* The search query at the corner (0,0) of a 3 x 4 grid wrapped both ways.
CornerWrapped ==
    /\ Asked
    /\ query = [width |-> 3, height |-> 4, pos |-> <<0, 0>>, moore |-> TRUE]
    /\ <<2, 3>> \in answer

====
